---- MODULE Spec2Model ----
(***************************************************************************)
(* License usage monitor: license_monitor.py (command runner, usage        *)
(* parser, snapshot gatherer, report renderer, history appender and the    *)
(* scheduler loop) and fetch_license.py (on-demand entry point).           *)
(***************************************************************************)
EXTENDS Integers, Sequences, FiniteSets, TLC

VARIABLES
    \* parse_usage applied to one output text
    p_output, p_result, p_pc,
    \* run_ckout applied to one feature under one environment
    r_feature, r_environ, r_proc, r_result, r_pc,
    \* status classification of one record by render_html and print_table
    s_rec, s_html, s_table, s_pc,
    \* one run of an entry point: its arguments and environment, its position,
    \* the records of the current cycle, the two files, how it ended
    entry, once, interval, features_arg, os_environ, pc, features, rows, report, log,
    report0, log0, ending, exit_code, raised_in,
    \* history: the clock, and how many times each step has been taken
    now, gathers, writes, appends, sleeps, slept, commands

parseVars == <<p_output, p_result, p_pc>>
runVars == <<r_feature, r_environ, r_proc, r_result, r_pc>>
statusVars == <<s_rec, s_html, s_table, s_pc>>
argVars == <<entry, once, interval, features_arg, os_environ, report0, log0>>
mainVars == <<argVars, pc, features, rows, report, log, ending, exit_code, raised_in,
              now, gathers, writes, appends, sleeps, slept, commands>>
vars == <<parseVars, runVars, statusVars, mainVars>>

(***************************************************************************)
(* Bounds of the model.                                                    *)
(***************************************************************************)
MaxText == 4
MaxFeature == 2
MaxCount == 5
MaxArg == 3
MaxCycles == 2

(***************************************************************************)
(* Optional[int]: None is the empty tuple, a known value n is <<n>>.       *)
(***************************************************************************)
None == <<>>
Some(n) == <<n>>
Val(o) == o[1]

RECURSIVE SeqsUpTo(_, _)
SeqsUpTo(S, n) ==
    IF n = 0 THEN {<<>>}
    ELSE LET shorter == SeqsUpTo(S, n - 1)
         IN  shorter \cup {Append(s, x) : s \in {t \in shorter : Len(t) = n - 1}, x \in S}

(***************************************************************************)
(* Output text of the license tool, as a sequence of lexical items.        *)
(*   TI n  "Total of n licenses issued"    TU n  "Total of n licenses in use" *)
(*   TL n  "Total licenses: n"             IU n  "In use: n"               *)
(*   IS n  "Issued=n"                      US n  "Used=n"                  *)
(*   SEMI  ";"      NL  a newline (whitespace)     MARK  "in use"          *)
(***************************************************************************)
Tok(k, n) == [k |-> k, n |-> n]
NumberKinds == {"TI", "TU", "TL", "IU", "IS", "US"}
Kinds == NumberKinds \cup {"SEMI", "NL", "MARK"}
\* the texts of at most MaxText items; the number in the i-th item is i, so
\* that the numbers of a text tell its items apart
Texts ==
    {[i \in 1..Len(ks) |-> Tok(ks[i], IF ks[i] \in NumberKinds THEN i ELSE 0)] :
        ks \in SeqsUpTo(Kinds, MaxText)}

\* \s
IsSpace(t) == t.k = "NL"
\* the items in which re.search(r"\bin\s*use\b", l, re.I) finds a match
HasInUse(t) == t.k \in {"TU", "IU", "MARK"}

\* The three regular expressions: the item holding group 1, the item holding
\* group 2, and what may stand between them (";?\s*" or ".*?").
COUNT_PATTERNS ==
    << [first |-> "TI", second |-> "TU", between |-> ";?\\s*"],
       [first |-> "TL", second |-> "IU", between |-> ".*?"],
       [first |-> "IS", second |-> "US", between |-> ".*?"] >>

\* index of the first item at or after j that is not whitespace (\s*)
RECURSIVE SkipSpace(_, _)
SkipSpace(text, j) ==
    IF j <= Len(text) /\ IsSpace(text[j]) THEN SkipSpace(text, j + 1) ELSE j

\* pat matched with its first item at position i: the position of the item
\* holding group 2, or 0 when there is no match starting at i
MatchAt(pat, text, i) ==
    IF text[i].k # pat.first THEN 0
    ELSE IF pat.between = ".*?"
         THEN LET later == {j \in (i + 1)..Len(text) : text[j].k = pat.second}
              IN  IF later = {} THEN 0
                  ELSE CHOOSE j \in later : \A l \in later : j <= l
         ELSE LET a == IF i + 1 <= Len(text) /\ text[i + 1].k = "SEMI"
                       THEN i + 2 ELSE i + 1
                  j == SkipSpace(text, a)
              IN  IF j <= Len(text) /\ text[j].k = pat.second THEN j ELSE 0

\* pat.search(output): None, or <<group(1), group(2)>> of the leftmost match
search(pat, output) ==
    LET starts == {i \in 1..Len(output) : MatchAt(pat, output, i) # 0}
    IN  IF starts = {} THEN None
        ELSE LET i == CHOOSE s \in starts : \A t \in starts : s <= t
             IN  <<output[i].n, output[MatchAt(pat, output, i)].n>>

\* str.splitlines()
RECURSIVE splitlines(_)
splitlines(text) ==
    IF text = <<>> THEN <<>>
    ELSE LET nls == {i \in 1..Len(text) : text[i].k = "NL"}
         IN  IF nls = {} THEN <<text>>
             ELSE LET i == CHOOSE s \in nls : \A t \in nls : s <= t
                  IN  <<SubSeq(text, 1, i - 1)>> \o splitlines(SubSeq(text, i + 1, Len(text)))

\* sum(1 for l in lines if re.search(r"\bin\s*use\b", l, re.I))
RECURSIVE CountInUse(_)
CountInUse(lines) ==
    IF lines = <<>> THEN 0
    ELSE (IF \E i \in 1..Len(Head(lines)) : HasInUse(Head(lines)[i]) THEN 1 ELSE 0)
            + CountInUse(Tail(lines))

Fallback(output) ==
    LET used_guess == CountInUse(splitlines(output))
    IN  IF used_guess > 0 THEN [total |-> None, used |-> Some(used_guess)]
        ELSE [total |-> None, used |-> None]

\* for pat in COUNT_PATTERNS: ... return at the first match
RECURSIVE TryPatterns(_, _)
TryPatterns(output, i) ==
    IF i > Len(COUNT_PATTERNS) THEN Fallback(output)
    ELSE LET m == search(COUNT_PATTERNS[i], output)
         IN  IF m # None THEN [total |-> Some(m[1]), used |-> Some(m[2])]
             ELSE TryPatterns(output, i + 1)

\* mutant: the loop keeps going and the last matching pattern wins
RECURSIVE TryPatternsLast(_, _)
TryPatternsLast(output, i) ==
    IF i < 1 THEN Fallback(output)
    ELSE LET m == search(COUNT_PATTERNS[i], output)
         IN  IF m # None THEN [total |-> Some(m[1]), used |-> Some(m[2])]
             ELSE TryPatternsLast(output, i - 1)

parse_usage_last_wins(output) == TryPatternsLast(output, Len(COUNT_PATTERNS))

parse_usage(output) == TryPatterns(output, 1)

(***************************************************************************)
(* SpecParse: parse_usage on every text of at most MaxText items.          *)
(***************************************************************************)
ParseIdle ==
    /\ p_output = <<>> /\ p_result = [total |-> None, used |-> None] /\ p_pc = "off"
RunIdle ==
    /\ r_feature = <<>> /\ r_environ = <<>> /\ r_proc = <<>> /\ r_result = <<>>
    /\ r_pc = "off"
StatusIdle ==
    /\ s_rec = <<>> /\ s_html = "" /\ s_table = "" /\ s_pc = "off"

MainIdle ==
    /\ entry = "" /\ once = FALSE /\ interval = 0 /\ features_arg = <<>>
    /\ os_environ = <<>> /\ pc = "off" /\ features = <<>> /\ rows = <<>>
    /\ report = <<>> /\ log = <<>> /\ report0 = <<>> /\ log0 = <<>>
    /\ ending = "" /\ exit_code = 0 /\ raised_in = ""
    /\ now = 0 /\ gathers = 0 /\ writes = 0 /\ appends = 0 /\ sleeps = 0
    /\ slept = 0 /\ commands = 0

InitParse ==
    /\ p_output \in Texts
    /\ p_result = [total |-> None, used |-> None]
    /\ p_pc = "call"
    /\ RunIdle /\ StatusIdle /\ MainIdle

Parse ==
    /\ p_pc = "call"
    /\ p_result' = parse_usage(p_output)
    /\ p_pc' = "done"
    /\ UNCHANGED <<p_output, runVars, statusVars, mainVars>>

NextParse == Parse

SpecParse == InitParse /\ [][NextParse]_vars

\* the patterns that match the text, and the lines of it that hold "in use"
Matching(output) == {i \in 1..Len(COUNT_PATTERNS) : search(COUNT_PATTERNS[i], output) # None}
InUseLines(output) ==
    LET lines == splitlines(output)
    IN  {l \in 1..Len(lines) : \E i \in 1..Len(lines[l]) : HasInUse(lines[l][i])}

\* C10: parse_usage returns the pair captured by the first pattern of the list
\* that matches; with no match it returns (None, N), N > 0 the number of lines
\* holding "in use"; with N = 0 it returns (None, None); a known total never
\* comes with an unknown used.
C10_FirstPatternWins ==
    p_pc = "done" =>
        /\ Matching(p_output) # {} =>
              \E i \in Matching(p_output) :
                 /\ \A j \in Matching(p_output) : i <= j
                 /\ p_result.total = Some(search(COUNT_PATTERNS[i], p_output)[1])
                 /\ p_result.used = Some(search(COUNT_PATTERNS[i], p_output)[2])
        /\ Matching(p_output) = {} =>
              /\ p_result.total = None
              /\ IF Cardinality(InUseLines(p_output)) > 0
                 THEN p_result.used = Some(Cardinality(InUseLines(p_output)))
                 ELSE p_result.used = None
        /\ ~(p_result.total # None /\ p_result.used = None)

\* two patterns match with different numbers, and the parse has run
C10_Witness ==
    /\ p_pc = "done"
    /\ {1, 2} \subseteq Matching(p_output)
    /\ search(COUNT_PATTERNS[1], p_output) # search(COUNT_PATTERNS[2], p_output)
    /\ p_result.total = Some(search(COUNT_PATTERNS[1], p_output)[1])

(***************************************************************************)
(* run_ckout.  A string is a sequence of characters; in a command template *)
(* the placeholder "{feature}" is one item.                                *)
(***************************************************************************)
Placeholder == "{feature}"
FeatureChars == {"a", "'", " "}

\* shlex.split(s): whitespace separates the words, a quote opens a quoted
\* part that runs to the next quote; ValueError("No closing quotation") when
\* the string ends inside a quoted part
RECURSIVE ShlexRead(_, _, _, _, _, _)
ShlexRead(s, i, quoted, word, inword, out) ==
    IF i > Len(s)
    THEN IF quoted THEN [ok |-> FALSE, argv |-> <<>>]
         ELSE [ok |-> TRUE, argv |-> IF inword THEN Append(out, word) ELSE out]
    ELSE IF quoted
         THEN IF s[i] = "'" THEN ShlexRead(s, i + 1, FALSE, word, TRUE, out)
              ELSE ShlexRead(s, i + 1, TRUE, Append(word, s[i]), TRUE, out)
         ELSE IF s[i] = " "
              THEN ShlexRead(s, i + 1, FALSE, <<>>, FALSE,
                             IF inword THEN Append(out, word) ELSE out)
              ELSE IF s[i] = "'" THEN ShlexRead(s, i + 1, TRUE, word, TRUE, out)
              ELSE ShlexRead(s, i + 1, FALSE, Append(word, s[i]), TRUE, out)

shlex_split(s) == ShlexRead(s, 1, FALSE, <<>>, FALSE, <<>>)

\* cmd_str.replace("{feature}", feature)
RECURSIVE replace_feature(_, _)
replace_feature(cmd_str, feature) ==
    IF cmd_str = <<>> THEN <<>>
    ELSE (IF Head(cmd_str) = Placeholder THEN feature ELSE <<Head(cmd_str)>>)
            \o replace_feature(Tail(cmd_str), feature)

\* os.environ.get("LICENSE_CHECK_CMD") or os.environ.get("LICENSE_CMD")
env_cmd_of(environ) ==
    IF environ.LICENSE_CHECK_CMD # None /\ Val(environ.LICENSE_CHECK_CMD) # <<>>
    THEN environ.LICENSE_CHECK_CMD
    ELSE environ.LICENSE_CMD

\* the command line built before the try block: [ok |-> FALSE] when
\* shlex.split raises
build_cmd(feature, environ) ==
    LET env_cmd == env_cmd_of(environ)
    IN  IF env_cmd # None /\ Val(env_cmd) # <<>>
        THEN IF \E i \in 1..Len(Val(env_cmd)) : Val(env_cmd)[i] = Placeholder
             THEN shlex_split(replace_feature(Val(env_cmd), feature))
             ELSE LET sp == shlex_split(Val(env_cmd))
                  IN  [ok |-> sp.ok, argv |-> IF sp.ok THEN Append(sp.argv, feature) ELSE <<>>]
        ELSE [ok |-> TRUE, argv |-> << <<"c", "k", "o", "u", "t">>, <<"-", "f">>, feature >>]

\* what subprocess.run(cmd, capture_output=True, text=True, timeout=timeout)
\* can do: complete with an exit code and two texts, or raise
ErrText(name) == <<Tok(name, 0), Tok(": ", 0), Tok("message", 0)>>
Completed(rc, out, err) == [kind |-> "completed", returncode |-> rc, stdout |-> out, stderr |-> err]
Raises(name) == [kind |-> name, returncode |-> 0, stdout |-> <<>>, stderr |-> <<>>]
ProcRaises == {Raises("TimeoutExpired"), Raises("FileNotFoundError")}

\* run_ckout(feature) with the environment and the behaviour of the child
\* process given: the value returned, or the exception that leaves the function
run_ckout(feature, environ, proc) ==
    LET cmd == build_cmd(feature, environ)
    IN  IF ~cmd.ok
        THEN [raised |-> TRUE, rc |-> 0, out |-> <<>>, err |-> ErrText("ValueError")]
        ELSE IF cmd.argv = <<>>
        THEN [raised |-> FALSE, rc |-> 1, out |-> <<>>, err |-> ErrText("IndexError")]
        ELSE IF proc.kind # "completed"
        THEN [raised |-> FALSE, rc |-> 1, out |-> <<>>, err |-> ErrText(proc.kind)]
        ELSE [raised |-> FALSE, rc |-> proc.returncode, out |-> proc.stdout, err |-> proc.stderr]

(***************************************************************************)
(* SpecRun: run_ckout on every feature name of at most MaxFeature          *)
(* characters, under every setting of the two environment variables.       *)
(***************************************************************************)
Templates ==
    { <<"c", " ", Placeholder>>, <<"'", Placeholder, "'">>, <<"c">>, <<"c", " ", "'">>,
      <<Placeholder>> }
EnvValues == {None, Some(<<>>)} \cup {Some(t) : t \in Templates}
Environs == [LICENSE_CHECK_CMD : EnvValues, LICENSE_CMD : EnvValues]
RunProcs ==
    ProcRaises \cup
    { Completed(0, <<Tok("IS", 2), Tok("NL", 0), Tok("US", 1)>>, <<>>),
      Completed(1, <<>>, <<Tok("message", 0), Tok("NL", 0)>>) }

InitRun ==
    /\ r_feature \in SeqsUpTo(FeatureChars, MaxFeature)
    /\ r_environ \in Environs
    /\ r_proc = <<>>
    /\ r_result = <<>>
    /\ r_pc = "call"
    /\ ParseIdle /\ StatusIdle /\ MainIdle

RunCkout ==
    /\ r_pc = "call"
    /\ \E proc \in RunProcs :
          /\ r_proc' = proc
          /\ r_result' = run_ckout(r_feature, r_environ, proc)
    /\ r_pc' = "done"
    /\ UNCHANGED <<r_feature, r_environ, parseVars, statusVars, mainVars>>

NextRun == RunCkout

SpecRun == InitRun /\ [][NextRun]_vars

\* C5: run_ckout never raises: a timeout or any other failure to invoke the
\* command yields exit code 1, empty stdout and a non-empty stderr, under
\* the default command, a template with {feature} and a template without it.
C5_NeverRaises ==
    r_pc = "done" =>
        /\ ~r_result.raised
        /\ (r_proc.kind # "completed" \/ ~build_cmd(r_feature, r_environ).ok) =>
              /\ r_result.rc = 1
              /\ r_result.out = <<>>
              /\ r_result.err # <<>>

(***************************************************************************)
(* Status classification: render_html and print_table.                     *)
(***************************************************************************)
\* render_html: the status text of a row
html_status(r) ==
    IF r.total = None \/ r.used = None THEN "Unknown parse"
    ELSE IF Val(r.used) < Val(r.total) THEN "OK"
    ELSE IF Val(r.used) = Val(r.total) THEN "Fully used"
    ELSE "Over-reported"

\* mutant: a full pool is still reported as OK
table_status_le(r) ==
    IF r.total = None \/ r.used = None THEN "Unknown parse"
    ELSE IF Val(r.used) <= Val(r.total) THEN "OK"
    ELSE IF Val(r.used) = Val(r.total) THEN "Fully used"
    ELSE "Over-reported"

\* print_table: the status text of a row
table_status(r) ==
    IF r.total = None \/ r.used = None THEN "Unknown parse"
    ELSE IF Val(r.used) < Val(r.total) THEN "OK"
    ELSE IF Val(r.used) = Val(r.total) THEN "Fully used"
    ELSE "Over-reported"

(***************************************************************************)
(* SpecStatus: both classifications on every (total, used) pair with       *)
(* counts up to MaxCount.                                                  *)
(***************************************************************************)
OptCounts == {None} \cup {Some(n) : n \in 0..MaxCount}

InitStatus ==
    /\ s_rec \in [total : OptCounts, used : OptCounts]
    /\ s_html = "" /\ s_table = ""
    /\ s_pc = "call"
    /\ ParseIdle /\ RunIdle /\ MainIdle

RenderHtml ==
    /\ s_pc = "call" /\ s_html = ""
    /\ s_html' = html_status(s_rec)
    /\ UNCHANGED <<s_rec, s_table, s_pc, parseVars, runVars, mainVars>>

PrintTable ==
    /\ s_pc = "call" /\ s_table = ""
    /\ s_table' = table_status(s_rec)
    /\ UNCHANGED <<s_rec, s_html, s_pc, parseVars, runVars, mainVars>>

NextStatus == RenderHtml \/ PrintTable

SpecStatus == InitStatus /\ [][NextStatus]_vars

\* the status the specification gives to (total, used)
StatusIs(st, r) ==
    /\ st \in {"Unknown parse", "OK", "Fully used", "Over-reported"}
    /\ st = "Unknown parse" <=> (r.total = None \/ r.used = None)
    /\ st = "OK" <=> (r.total # None /\ r.used # None /\ Val(r.used) < Val(r.total))
    /\ st = "Fully used" <=> (r.total # None /\ r.used # None /\ Val(r.used) = Val(r.total))
    /\ st = "Over-reported" <=> (r.total # None /\ r.used # None /\ Val(r.used) > Val(r.total))

\* C4: the status is 'Unknown parse' if total or used is unknown, else OK /
\* Fully used / Over-reported as used is below, equal to or above total; the
\* HTML report and the console table give a record the same status.
C4_StatusFunction ==
    /\ s_html # "" => StatusIs(s_html, s_rec)
    /\ s_table # "" => StatusIs(s_table, s_rec)
    /\ (s_html # "" /\ s_table # "") => s_html = s_table

\* both have classified a record whose pool is exactly full
C4_Witness ==
    /\ s_html = "Fully used" /\ s_table = "Fully used"
    /\ s_rec.used = s_rec.total

(***************************************************************************)
(* The pipeline: argument parsing, gather, render_html, append_csv and     *)
(* the scheduler of the two entry points.                                  *)
(***************************************************************************)
ArgChars == {"a", "'", ",", " "}

\* str.strip()
RECURSIVE lstrip(_)
lstrip(str) == IF str # <<>> /\ Head(str) = " " THEN lstrip(Tail(str)) ELSE str
RECURSIVE rstrip(_)
rstrip(str) ==
    IF str # <<>> /\ str[Len(str)] = " " THEN rstrip(SubSeq(str, 1, Len(str) - 1)) ELSE str
strip(str) == rstrip(lstrip(str))

\* str.split(",")
RECURSIVE split_comma(_)
split_comma(str) ==
    LET commas == {i \in 1..Len(str) : str[i] = ","}
    IN  IF commas = {} THEN <<str>>
        ELSE LET i == CHOOSE c \in commas : \A d \in commas : c <= d
             IN  <<SubSeq(str, 1, i - 1)>> \o split_comma(SubSeq(str, i + 1, Len(str)))

RECURSIVE StripAll(_)
StripAll(parts) ==
    IF parts = <<>> THEN <<>> ELSE <<strip(Head(parts))>> \o StripAll(Tail(parts))

\* mutant: the empty names are kept
split_features_keep_empty(arg) == StripAll(split_comma(arg))

\* [f.strip() for f in args.features.split(",") if f.strip()]
split_features(arg) == SelectSeq(StripAll(split_comma(arg)), LAMBDA f : f # <<>>)

\* text.strip() on a text of items
RECURSIVE strip_text(_)
strip_text(text) ==
    IF text # <<>> /\ IsSpace(Head(text)) THEN strip_text(Tail(text))
    ELSE IF text # <<>> /\ IsSpace(text[Len(text)])
         THEN strip_text(SubSeq(text, 1, Len(text) - 1))
         ELSE text

\* dt.datetime.now().strftime("%Y-%m-%d %H:%M:%S")
strftime(t) == <<"T", ToString(t)>>

\* mutant: the difference is taken the wrong way round
unused_of_swapped(total, used) ==
    IF total # None /\ used # None THEN Some(Val(used) - Val(total)) ELSE None

\* unused = (total - used) if (total is not None and used is not None) else None
unused_of(total, used) ==
    IF total # None /\ used # None THEN Some(Val(total) - Val(used)) ELSE None

\* the body of gather's loop for features[i..]; procs[i] is what the child
\* process of the i-th feature does.  raised: run_ckout raised and the
\* exception left gather; ran: the child processes started
RECURSIVE gather_from(_, _, _, _, _, _, _)
gather_from(feats, env, procs, stamp, i, results, ran) ==
    IF i > Len(feats) THEN [raised |-> FALSE, rows |-> results, ran |-> ran]
    ELSE LET res == run_ckout(feats[i], env, procs[i])
             cmd == build_cmd(feats[i], env)
             pu == parse_usage(res.out)
             rec == [feature |-> feats[i], total |-> pu.total, used |-> pu.used,
                     unused |-> unused_of(pu.total, pu.used), timestamp |-> stamp,
                     rc |-> res.rc, stderr |-> strip_text(res.err),
                     raw |-> strip_text(res.out)]
         IN  IF res.raised THEN [raised |-> TRUE, rows |-> <<>>, ran |-> ran]
             ELSE gather_from(feats, env, procs, stamp, i + 1, Append(results, rec),
                              IF cmd.ok /\ cmd.argv # <<>> THEN ran + 1 ELSE ran)

gather(feats, env, procs, t) == gather_from(feats, env, procs, strftime(t), 1, <<>>, 0)

\* html.escape
html_escape(str) ==
    [i \in 1..Len(str) |->
        IF str[i] = "'" THEN "&#x27;"
        ELSE IF str[i] = "<" THEN "&lt;"
        ELSE IF str[i] = ">" THEN "&gt;"
        ELSE IF str[i] = "&" THEN "&amp;"
        ELSE str[i]]

\* str(v) if v is not None else "?"
disp(v) == IF v # None THEN <<ToString(Val(v))>> ELSE <<"?">>

\* render_html: the title and one table row per record
render_html(rs, title) ==
    [title |-> html_escape(title),
     body |-> [i \in 1..Len(rs) |->
                  <<html_escape(rs[i].feature), disp(rs[i].used), disp(rs[i].unused),
                    disp(rs[i].total), html_escape(rs[i].timestamp),
                    <<html_status(rs[i])>> >>]]

\* a file: absent, or present with its content
Absent == [exists |-> FALSE, content |-> <<>>]
File(content) == [exists |-> TRUE, content |-> content]

\* csv.writer: None is written as the empty string, an int by str()
csv_cell(v) == IF v = None THEN <<>> ELSE <<ToString(Val(v))>>
Header == << <<"timestamp">>, <<"feature">>, <<"used">>, <<"unused">>, <<"total">> >>
csv_row(r) ==
    <<r.timestamp, r.feature, csv_cell(r.used), csv_cell(r.unused), csv_cell(r.total)>>

\* mutant: the header is written whether or not the file is there
ensure_csv_header_always(file) == File(<<Header>>)

\* ensure_csv_header: the file after the call
ensure_csv_header(file) == IF ~file.exists THEN File(<<Header>>) ELSE file

\* append_csv: the file after the call.  io: "ok", or the open that raises
\* OSError ("create": the open of ensure_csv_header, "append": the open for
\* appending)
append_csv(file, rs, io) ==
    IF io = "create" /\ ~file.exists THEN [raised |-> TRUE, file |-> file]
    ELSE IF io = "append" THEN [raised |-> TRUE, file |-> ensure_csv_header(file)]
    ELSE [raised |-> FALSE,
          file |-> File(ensure_csv_header(file).content \o [i \in 1..Len(rs) |-> csv_row(rs[i])])]

\* mutant: the configured interval is slept as it is
sleep_seconds_no_floor(n) == n

\* max(5, args.interval)
sleep_seconds(n) == IF n > 5 THEN n ELSE 5

Title == <<"L", "<", "M", ">">>
OldReport == File([title |-> <<"o", "l", "d">>, body |-> <<>>])
OldLog == File(<<>>)

\* (entry point, --once, --interval); fetch_license.py has neither flag and
\* always runs one cycle
Configs ==
    { <<"fetch", TRUE, 300>>, <<"monitor", TRUE, 300>> }
        \cup { <<"monitor", FALSE, n>> : n \in {0 - 1, 0, 7} }

MainEnvirons ==
    { [LICENSE_CHECK_CMD |-> None, LICENSE_CMD |-> None],
      [LICENSE_CHECK_CMD |-> Some(<<"c", " ", Placeholder>>), LICENSE_CMD |-> None] }

\* what the license tool does for one feature in the pipeline
MainProcs ==
    { Raises("TimeoutExpired"),
      Completed(0, <<Tok("TI", 2), Tok("SEMI", 0), Tok("NL", 0), Tok("TU", 1), Tok("NL", 0)>>, <<>>),
      Completed(0, <<Tok("IS", 1), Tok("NL", 0), Tok("US", 2)>>, <<>>) }

Init ==
    /\ \E c \in Configs : entry = c[1] /\ once = c[2] /\ interval = c[3]
    /\ features_arg \in SeqsUpTo(ArgChars, MaxArg)
    /\ os_environ \in MainEnvirons
    /\ \E old \in BOOLEAN :
          /\ report0 = IF old THEN OldReport ELSE Absent
          /\ log0 = IF old THEN OldLog ELSE Absent
    /\ report = report0 /\ log = log0
    /\ pc = "start" /\ features = <<>> /\ rows = <<>>
    /\ ending = "" /\ exit_code = 0 /\ raised_in = ""
    /\ now = 0 /\ gathers = 0 /\ writes = 0 /\ appends = 0 /\ sleeps = 0
    /\ slept = 0 /\ commands = 0
    /\ ParseIdle /\ RunIdle /\ StatusIdle

others == <<parseVars, runVars, statusVars, argVars>>

\* an exception reaches the top of the entry point: fetch_license.py prints
\* "Error: ..." and exits 1; license_monitor.py has no handler, the
\* interpreter prints the traceback and exits 1
Propagate(where) ==
    /\ raised_in' = where
    /\ pc' = "ended"
    /\ ending' = IF entry = "fetch" THEN "Error:" ELSE "Traceback"
    /\ exit_code' = 1

\* main: the feature list is split; an empty list ends the run with code 2
ParseArgs ==
    /\ pc = "start"
    /\ features' = split_features(features_arg)
    /\ IF features' = <<>>
       THEN pc' = "ended" /\ ending' = "sys.exit(2)" /\ exit_code' = 2
       ELSE pc' = "gather" /\ UNCHANGED <<ending, exit_code>>
    /\ UNCHANGED <<others, rows, report, log, raised_in, now, gathers, writes, appends,
                   sleeps, slept, commands>>

\* rows = gather(features)
Gather ==
    /\ pc = "gather"
    /\ now' = now + 1
    /\ gathers' = gathers + 1
    /\ \E procs \in [1..Len(features) -> MainProcs] :
          LET g == gather(features, os_environ, procs, now')
          IN  /\ commands' = commands + g.ran
              /\ IF g.raised
                 THEN Propagate("gather") /\ UNCHANGED rows
                 ELSE /\ rows' = g.rows
                      /\ pc' = "write"
                      /\ UNCHANGED <<ending, exit_code, raised_in>>
    /\ UNCHANGED <<others, features, report, log, writes, appends, sleeps, slept>>

\* html_text = render_html(rows, args.title); open(args.out, "w").write(html_text)
WriteReport ==
    /\ pc = "write"
    /\ writes' = writes + 1
    /\ \E ok \in BOOLEAN :
          IF ok
          THEN /\ report' = File(render_html(rows, Title))
               /\ pc' = "append"
               /\ UNCHANGED <<ending, exit_code, raised_in>>
          ELSE Propagate("write") /\ UNCHANGED report
    /\ UNCHANGED <<others, features, rows, log, now, gathers, appends, sleeps, slept,
                   commands>>

\* append_csv(args.csv, rows), then the print; one cycle ends here: a run
\* with --once (and fetch_license.py) returns, the monitor goes to sleep
AppendCsv ==
    /\ pc = "append"
    /\ appends' = appends + 1
    /\ \E io \in {"ok", "create", "append"} :
          LET a == append_csv(log, rows, io)
          IN  /\ log' = a.file
              /\ IF a.raised
                 THEN Propagate("append")
                 ELSE /\ UNCHANGED raised_in
                      /\ IF once
                         THEN pc' = "ended" /\ ending' = "return" /\ exit_code' = 0
                         ELSE pc' = "sleep" /\ UNCHANGED <<ending, exit_code>>
    /\ UNCHANGED <<others, features, rows, report, now, gathers, writes, sleeps, slept,
                   commands>>

\* while True: time.sleep(max(5, args.interval)); then the next cycle
Sleep ==
    /\ pc = "sleep"
    /\ sleeps < MaxCycles - 1
    /\ sleeps' = sleeps + 1
    /\ slept' = sleep_seconds(interval)
    /\ pc' = "gather"
    /\ UNCHANGED <<others, features, rows, report, log, ending, exit_code, raised_in,
                   now, gathers, writes, appends, commands>>

Next == ParseArgs \/ Gather \/ WriteReport \/ AppendCsv \/ Sleep

Spec == Init /\ [][Next]_vars

(***************************************************************************)
(* Properties of the pipeline.                                             *)
(***************************************************************************)
IsPrefix(a, b) == Len(a) <= Len(b) /\ SubSeq(b, 1, Len(a)) = a

\* C1: on a log path that starts absent, the first append_csv call writes the
\* header row and then one data row per record in input order; every later
\* call only adds rows at the end (the old content is a prefix of the new);
\* the header is the first row and occurs once.
C1_LogAdditive ==
    /\ [](log0 = Absent /\ log.exists =>
             /\ log.content # <<>> /\ log.content[1] = Header
             /\ \A i \in 2..Len(log.content) : log.content[i] # Header)
    /\ [][log0 = Absent /\ pc = "append" =>
             /\ log.exists => (log'.exists /\ IsPrefix(log.content, log'.content))
             /\ raised_in' = "" =>
                  LET before == IF log.exists THEN log.content ELSE <<Header>>
                  IN  /\ IsPrefix(before, log'.content)
                      /\ Len(log'.content) = Len(before) + Len(rows)
                      /\ \A i \in 1..Len(rows) :
                            /\ log'.content[Len(before) + i][1] = rows[i].timestamp
                            /\ log'.content[Len(before) + i][2] = rows[i].feature]_vars

\* the second call has appended to a log the first call created
C1_Witness ==
    /\ log0 = Absent /\ appends = 2 /\ raised_in = ""
    /\ Len(log.content) = 1 + 2 * Len(rows)

\* the count a cell of the report or of the log stands for
CellValue(cell) ==
    IF cell = <<>> \/ cell = <<"?">> THEN None
    ELSE Some(CHOOSE n \in (0 - 9)..9 : ToString(n) = cell[1])

Derived(total, used, unused) ==
    IF total # None /\ used # None THEN unused = Some(Val(total) - Val(used))
    ELSE unused = None

\* C2: every record of gather, every row of the report and every data row of
\* the log has unused = total - used when total and used are known, and
\* unused unknown when either is unknown.
C2_UnusedDerived ==
    /\ \A i \in 1..Len(rows) : Derived(rows[i].total, rows[i].used, rows[i].unused)
    /\ (report.exists /\ report # report0) =>
          \A i \in 1..Len(report.content.body) :
             LET row == report.content.body[i]
             IN  Derived(CellValue(row[4]), CellValue(row[2]), CellValue(row[3]))
    /\ log.exists =>
          \A i \in 1..Len(log.content) :
             LET row == log.content[i]
             IN  row # Header =>
                    Derived(CellValue(row[5]), CellValue(row[3]), CellValue(row[4]))

\* a cycle has logged a record with both counts known and one with neither
C2_Witness ==
    /\ appends >= 1 /\ raised_in = "" /\ pc # "append"
    /\ \E i \in 1..Len(rows) : rows[i].total # None /\ rows[i].unused # None
    /\ \E i \in 1..Len(rows) : rows[i].total = None /\ rows[i].unused = None
    /\ Len(log.content) > Len(rows)

\* C3: unused is unknown or a non-negative integer in every record of gather.
C3_UnusedNonNegative ==
    \A i \in 1..Len(rows) : rows[i].unused = None \/ Val(rows[i].unused) >= 0

\* C6: gather returns one record per input name, in input order; a feature
\* whose command fails still yields its record (counts unknown, stderr not
\* empty) and the features after it are polled.
C6_OneRecordPerFeature ==
    /\ raised_in # "gather"
    /\ (gathers > 0 /\ pc # "gather") =>
          /\ Len(rows) = Len(features)
          /\ \A i \in 1..Len(rows) :
                /\ rows[i].feature = features[i]
                /\ (rows[i].rc = 1 /\ rows[i].raw = <<>>) =>
                      (rows[i].total = None /\ rows[i].used = None /\ rows[i].stderr # <<>>)

\* C7: cycles run gather, report write, log append in that order, one after
\* the other; with --once one cycle runs and the program returns; without it
\* the first cycle runs with no sleep before it, one sleep of max(5, interval)
\* seconds (at least 5) separates consecutive cycles, and main never returns:
\* once in the loop, only a failed write of one of the two files ends it.
C7_Scheduler ==
    /\ writes <= gathers /\ appends <= writes /\ gathers <= appends + 1
    /\ (pc = "write" => writes = gathers - 1) /\ (pc = "append" => appends = writes - 1)
    /\ (entry = "monitor" /\ once) =>
          /\ sleeps = 0 /\ gathers <= 1
          /\ ending = "return" => (gathers = 1 /\ writes = 1 /\ appends = 1)
    /\ (entry = "monitor" /\ ~once) =>
          /\ ending # "return"
          /\ (sleeps > 0 /\ pc = "ended") => raised_in \in {"write", "append"}
          /\ gathers = 0 => sleeps = 0
          /\ (gathers > 0 /\ pc = "gather") => sleeps = gathers
          /\ (gathers > 0 /\ pc # "gather") => sleeps = gathers - 1
          /\ pc = "sleep" => appends = gathers
          /\ sleeps > 0 =>
                /\ slept >= 5 /\ slept >= interval
                /\ slept = 5 \/ slept = interval

\* the monitor has slept once, with an interval below the floor, and has
\* finished its second cycle
C7_Witness ==
    /\ entry = "monitor" /\ ~once /\ interval <= 0
    /\ sleeps = 1 /\ slept = 5 /\ appends = 2 /\ pc = "sleep"

\* the argument holds nothing but commas and blanks
BlankList(arg) == \A i \in 1..Len(arg) : arg[i] \in {",", " "}

\* C8: when the feature list is empty after splitting and trimming, the
\* entry point exits with status 2 before any command is run, and the report
\* and the log are neither created nor modified.
C8_EmptyFeatureList ==
    (BlankList(features_arg) /\ pc # "start") =>
        /\ pc = "ended" /\ ending = "sys.exit(2)" /\ exit_code = 2
        /\ commands = 0 /\ gathers = 0
        /\ report = report0 /\ log = log0

\* fetch_license.py has exited on a list of commas and blanks, files in place
C8_Witness ==
    /\ entry = "fetch" /\ features_arg # <<>> /\ BlankList(features_arg)
    /\ ending = "sys.exit(2)" /\ report0.exists /\ report = report0 /\ log = log0

\* C9: a failure that reaches the top level of an entry point is caught there,
\* printed with the generic prefix, and ends the process with the generic
\* failure code; no entry point ends with an uncaught exception.
C9_TopLevelHandler ==
    /\ ending # "Traceback"
    /\ raised_in # "" => (ending = "Error:" /\ exit_code = 1)
====
